---- MODULE Spec2Model ----
(***************************************************************************)
(* py2sqlite: builders of SQLite statements (src/py2sqlite/__init__.py).   *)
(*                                                                         *)
(* Text is a sequence of one-character strings, so that slicing, rstrip    *)
(* and the last characters of a statement are what the code makes them.    *)
(* A Python value is a record [t, i, s, items]: t its type, i the number   *)
(* of an int or bool, s the characters of a str, items the elements of a   *)
(* list or tuple, or the [k, v] entries of a dict in insertion order.      *)
(***************************************************************************)
EXTENDS Integers, Sequences, FiniteSets, TLC

VARIABLES getTables, insertDict1, insertDict2, pc, call, objs, result, saved

vars == <<getTables, insertDict1, insertDict2, pc, call, objs, result, saved>>

(***************************************************************************)
(* Bounds of the model.                                                    *)
(***************************************************************************)
\* longest list, tuple or mapping drawn as an argument
MaxItems == 2
\* largest limit and offset drawn
MaxLimit == 3
\* calls counted since a caller kept one (the count stops there)
MaxSince == 2

(***************************************************************************)
(* The string literals of the source.                                      *)
(***************************************************************************)
getTablesText ==
    <<"S", "E", "L", "E", "C", "T", " ", "n", "a", "m", "e", " ", "F", "R", "O", "M", " ", "s", "q", "l", "i", "t", "e", "_", "s", "c", "h", "e", "m", "a", " ", "W", "H", "E", "R", "E", " ", "t", "y", "p", "e", "=", "'", "t", "a", "b", "l", "e", "'", " ", "A", "N", "D", " ", "n", "a", "m", "e", " ", "N", "O", "T", " ", "L", "I", "K", "E", " ", "'", "s", "q", "l", "i", "t", "e", "_", "%", "'", ";">>
txtCreateTable ==
    <<"C", "R", "E", "A", "T", "E", " ", "T", "A", "B", "L", "E", " ">>
txtAlterTable ==
    <<"A", "L", "T", "E", "R", " ", "T", "A", "B", "L", "E", " ">>
txtAddColumn ==
    <<" ", "A", "D", "D", " ", "C", "O", "L", "U", "M", "N", " ", "'">>
txtPragma ==
    <<"P", "R", "A", "G", "M", "A", " ", "T", "A", "B", "L", "E", "_", "I", "N", "F", "O", "(">>
txtInsertInto ==
    <<"I", "N", "S", "E", "R", "T", " ", "I", "N", "T", "O", " ">>
txtValues ==
    <<"V", "A", "L", "U", "E", "S">>
txtSpValues ==
    <<" ", "V", "A", "L", "U", "E", "S">>
txtFrom ==
    <<"F", "R", "O", "M", " ">>
txtSet ==
    <<"S", "E", "T", " ">>
txtWhere ==
    <<"W", "H", "E", "R", "E", " ">>
txtAnd ==
    <<" ", "A", "N", "D", " ">>
txtOrderBy ==
    <<"O", "R", "D", "E", "R", " ", "B", "Y", " ">>
txtDesc ==
    <<"D", "E", "S", "C", " ">>
txtLimit ==
    <<"L", "I", "M", "I", "T", " ">>
txtOffset ==
    <<"O", "F", "F", "S", "E", "T", " ">>
SELECT ==
    <<"S", "E", "L", "E", "C", "T">>
UPDATE ==
    <<"U", "P", "D", "A", "T", "E">>
DELETE ==
    <<"D", "E", "L", "E", "T", "E">>

(***************************************************************************)
(* Python values.                                                          *)
(***************************************************************************)
PyNone == [t |-> "None", i |-> 0, s |-> <<>>, items |-> <<>>]
PyInt(n) == [t |-> "int", i |-> n, s |-> <<>>, items |-> <<>>]
PyBool(b) == [t |-> "bool", i |-> IF b THEN 1 ELSE 0, s |-> <<>>, items |-> <<>>]
PyStr(cs) == [t |-> "str", i |-> 0, s |-> cs, items |-> <<>>]
PyList(xs) == [t |-> "list", i |-> 0, s |-> <<>>, items |-> xs]
PyTuple(xs) == [t |-> "tuple", i |-> 0, s |-> <<>>, items |-> xs]
PyDict(kvs) == [t |-> "dict", i |-> 0, s |-> <<>>, items |-> kvs]

\* what a call gives back: a returned string, or the exception it raised
Return(cs) == [exc |-> "", ret |-> cs]
Raise(e) == [exc |-> e, ret |-> <<>>]

\* Truthy as a test against None alone: 0 and empty containers pass
NotNone(x) == x.t # "None"

\* bool(x): None, 0, False, "" and empty containers are false
Truthy(x) ==
    CASE x.t = "None" -> FALSE
      [] x.t \in {"int", "bool"} -> x.i # 0
      [] x.t = "str" -> x.s # <<>>
      [] OTHER -> x.items # <<>>

\* hash(x) raises TypeError for a list or a dict
Hashable(x) == x.t \notin {"list", "dict"}

\* the elements iter(x) yields: the items of a sequence, the keys of a dict
DictKeys(d) == [n \in 1..Len(d.items) |-> d.items[n].k]
DictValues(d) == [n \in 1..Len(d.items) |-> d.items[n].v]
Iter(x) == IF x.t = "dict" THEN DictKeys(x) ELSE x.items

\* Lookup that takes an unhashable key for a missing one
LookupMissing(d, key) ==
    IF Hashable(key) /\ key \in DOMAIN d THEN [exc |-> "", val |-> d[key]]
    ELSE [exc |-> "KeyError", val |-> ""]

\* d[key] on a dict held as a function from its keys: the value, or the
\* exception the lookup raises
Lookup(d, key) ==
    IF ~Hashable(key) THEN [exc |-> "TypeError", val |-> "" ]
    ELSE IF key \in DOMAIN d THEN [exc |-> "", val |-> d[key]]
    ELSE [exc |-> "KeyError", val |-> ""]

(***************************************************************************)
(* Python text operations.                                                 *)
(***************************************************************************)
Whitespace == {" ", "\t", "\n", "\r", "\f"}

RECURSIVE rstrip(_)
rstrip(cs) ==
    IF cs # <<>> /\ cs[Len(cs)] \in Whitespace
    THEN rstrip(SubSeq(cs, 1, Len(cs) - 1))
    ELSE cs

\* sep.join(parts)
RECURSIVE join(_, _)
join(sep, parts) ==
    IF parts = <<>> THEN <<>>
    ELSE IF Len(parts) = 1 THEN parts[1]
    ELSE parts[1] \o sep \o join(sep, Tail(parts))

\* cs[:-1], a slice one short
DropLast1(cs) == SubSeq(cs, 1, Len(cs) - 1)

\* cs[:-2]
DropLast2(cs) == SubSeq(cs, 1, Len(cs) - 2)

Digits == <<"0", "1", "2", "3", "4", "5", "6", "7", "8", "9">>

RECURSIVE NatStr(_)
NatStr(n) ==
    IF n < 10 THEN <<Digits[n + 1]>>
    ELSE NatStr(n \div 10) \o <<Digits[(n % 10) + 1]>>

IntStr(n) == IF n < 0 THEN <<"-">> \o NatStr(-n) ELSE NatStr(n)

\* str(x), which is also what an f-string field gives
str(x) ==
    CASE x.t = "int" -> IntStr(x.i)
      [] x.t = "str" -> x.s
      [] x.t = "bool" -> IF x.i = 1 THEN <<"T", "r", "u", "e">> ELSE <<"F", "a", "l", "s", "e">>
      [] OTHER -> <<"N", "o", "n", "e">>

Contains(cs, c) == \E n \in 1..Len(cs) : cs[n] = c

\* the body of repr(str): backslash, the quote in use and control characters
\* are escaped
RECURSIVE Escaped(_, _)
Escaped(cs, quote) ==
    IF cs = <<>> THEN <<>>
    ELSE LET c == Head(cs)
             e == CASE c = "\\" -> <<"\\", "\\">>
                    [] c = quote -> <<"\\", quote>>
                    [] c = "\n" -> <<"\\", "n">>
                    [] c = "\t" -> <<"\\", "t">>
                    [] c = "\r" -> <<"\\", "r">>
                    [] OTHER -> <<c>>
         IN e \o Escaped(Tail(cs), quote)

\* repr(x): a str in single quotes, or in double quotes when it holds a
\* single quote and no double quote; a number as str gives it
repr(x) ==
    IF x.t = "str"
    THEN LET quote == IF Contains(x.s, "'") /\ ~Contains(x.s, "\"") THEN "\"" ELSE "'"
         IN <<quote>> \o Escaped(x.s, quote) \o <<quote>>
    ELSE str(x)

(***************************************************************************)
(* The functions of the module.                                            *)
(***************************************************************************)
\* isIter that knows lists only
isIterListOnly(arg) == arg.t = "list"

isIter(arg) == arg.t = "list" \/ arg.t = "tuple"

\* " ".join(tokens) for a list or tuple of str
JoinTokens(arg) == join(<<" ">>, [n \in 1..Len(arg.items) |-> arg.items[n].s])

\* the loop of createTable over fields.items(), from entry n on
RECURSIVE createTableLoop(_, _, _)
createTableLoop(query, items, n) ==
    IF n > Len(items) THEN query
    ELSE LET fName == items[n].k
             fArgs == IF isIter(items[n].v) THEN JoinTokens(items[n].v) ELSE str(items[n].v)
         IN createTableLoop(query \o str(fName) \o <<" ">> \o fArgs \o <<",", " ">>, items, n + 1)

createTable(name, fields) ==
    LET query == createTableLoop(txtCreateTable \o name \o <<"(">>, fields.items, 1)
    IN Return(DropLast2(query) \o <<")", ";">>)

addColumn(tableName, columnName, args) ==
    LET a == IF isIter(args) THEN JoinTokens(args) ELSE str(args)
    IN Return(txtAlterTable \o tableName \o txtAddColumn \o columnName \o <<"'", " ">> \o a \o <<";">>)

getColumns(name) == Return(txtPragma \o name \o <<")", ";">>)

\* wrap = lambda iterable: "(" + ", ".join(map(repr, iterable)) + ")"
wrap(elems) ==
    <<"(">> \o join(<<",", " ">>, [n \in 1..Len(elems) |-> repr(elems[n])]) \o <<")">>

\* insertLambda with the column names of a mapping written as given
insertLambdaPlainNames(which, values) ==
    IF which = "bare" THEN Return(txtValues \o wrap(Iter(values)))
    ELSE IF values.t # "dict" THEN Raise("AttributeError")
    ELSE Return(<<"(">>
                \o join(<<",", " ">>, [n \in 1..Len(values.items) |-> str(values.items[n].k)])
                \o <<")">> \o txtSpValues \o wrap(DictValues(values)))

\* the two lambdas of _insertDict2, by name: "bare" is the one stored under
\* True, "named" the one stored under False
insertLambda(which, values) ==
    IF which = "bare" THEN Return(txtValues \o wrap(Iter(values)))
    ELSE IF values.t # "dict" THEN Raise("AttributeError")
    ELSE Return(wrap(DictKeys(values)) \o txtSpValues \o wrap(DictValues(values)))

\* insert whose KeyError handler emits a bare VALUES tuple of columns
insertColumnsOnly(tableName, values, columns, d1, d2) ==
    LET query == txtInsertInto \o tableName \o <<" ">>
        fn == Lookup(d1, columns)
    IN IF fn.exc = "KeyError"
       THEN Return(query \o txtValues \o wrap(Iter(columns)) \o <<";">>)
       ELSE IF fn.exc # "" THEN Raise(fn.exc)
       ELSE LET made == insertLambda(d2[isIter(values)], values)
            IN IF made.exc # "" THEN made
               ELSE Return(query \o made.ret \o <<";">>)

\* insert, reading the module's two dispatch tables d1 and d2
insert(tableName, values, columns, d1, d2) ==
    LET query == txtInsertInto \o tableName \o <<" ">>
        fn == Lookup(d1, columns)
    IN IF fn.exc = "KeyError"
       THEN Return(query \o wrap(Iter(columns)) \o txtSpValues \o wrap(Iter(values)) \o <<";">>)
       ELSE IF fn.exc # "" THEN Raise(fn.exc)
       ELSE LET made == insertLambda(d2[isIter(values)], values)
            IN IF made.exc # "" THEN made
               ELSE Return(query \o made.ret \o <<";">>)

\* "=".join pairs of zip(d.keys(), map(str, d.values()))
Assignments(d) ==
    [n \in 1..Len(d.items) |-> str(d.items[n].k) \o <<"=">> \o str(d.items[n].v)]

\* _generic that emits DESC only next to an ORDER BY
genericDescWithOrder(tableName, mode, conditions, orderBy, limit, offset, desc, columns, values) ==
    LET attributes ==
            IF Truthy(columns)
            THEN join(<<",">>, [n \in 1..Len(columns.items) |->
                        tableName \o <<".", "'">> \o str(columns.items[n]) \o <<"'">>]) \o <<" ">>
            ELSE IF mode = SELECT THEN <<"*", " ">> ELSE <<>>
        fromKeyword == IF mode \in {SELECT, DELETE} THEN txtFrom ELSE <<>>
        sets == IF mode = UPDATE
                THEN txtSet \o join(<<",">>, Assignments(values)) \o <<" ">>
                ELSE <<>>
        wheres == IF Truthy(conditions)
                  THEN txtWhere \o join(txtAnd, Assignments(conditions)) \o <<" ">>
                  ELSE <<>>
        order == IF Truthy(orderBy) THEN txtOrderBy \o str(orderBy) \o <<" ">> ELSE <<>>
        descText == IF Truthy(desc) /\ Truthy(orderBy) THEN txtDesc ELSE <<>>
        limitText == IF Truthy(limit) THEN txtLimit \o str(limit) \o <<" ">> ELSE <<>>
        offsetText == IF Truthy(offset) THEN txtOffset \o str(offset) \o <<" ">> ELSE <<>>
        query == mode \o <<" ">> \o attributes \o fromKeyword \o tableName \o <<" ">>
                 \o sets \o wheres \o order \o descText \o limitText \o offsetText
    IN Return(rstrip(query) \o <<";">>)

_generic(tableName, mode, conditions, orderBy, limit, offset, desc, columns, values) ==
    LET attributes ==
            IF Truthy(columns)
            THEN join(<<",">>, [n \in 1..Len(columns.items) |->
                        tableName \o <<".", "'">> \o str(columns.items[n]) \o <<"'">>]) \o <<" ">>
            ELSE IF mode = SELECT THEN <<"*", " ">> ELSE <<>>
        fromKeyword == IF mode \in {SELECT, DELETE} THEN txtFrom ELSE <<>>
        sets == IF mode = UPDATE
                THEN txtSet \o join(<<",">>, Assignments(values)) \o <<" ">>
                ELSE <<>>
        wheres == IF Truthy(conditions)
                  THEN txtWhere \o join(txtAnd, Assignments(conditions)) \o <<" ">>
                  ELSE <<>>
        order == IF Truthy(orderBy) THEN txtOrderBy \o str(orderBy) \o <<" ">> ELSE <<>>
        descText == IF Truthy(desc) THEN txtDesc ELSE <<>>
        limitText == IF Truthy(limit) THEN txtLimit \o str(limit) \o <<" ">> ELSE <<>>
        offsetText == IF Truthy(offset) THEN txtOffset \o str(offset) \o <<" ">> ELSE <<>>
        query == mode \o <<" ">> \o attributes \o fromKeyword \o tableName \o <<" ">>
                 \o sets \o wheres \o order \o descText \o limitText \o offsetText
    IN Return(rstrip(query) \o <<";">>)

update(tableName, values, conditions, orderBy, limit, offset, desc) ==
    _generic(tableName, UPDATE, conditions, orderBy, limit, offset, desc, PyNone, values)

select(tableName, conditions, columns, orderBy, limit, offset, desc) ==
    _generic(tableName, SELECT, conditions, orderBy, limit, offset, desc, columns, PyNone)

delete(tableName, conditions, orderBy, limit, offset, desc) ==
    _generic(tableName, DELETE, conditions, orderBy, limit, offset, desc, PyNone, PyNone)

(***************************************************************************)
(* What a call leaves behind in the objects it was handed and in the       *)
(* module's tables.                                                        *)
(***************************************************************************)
\* the caller's mapping after createTable: the loop assigns the joined text
\* to its own variable fArgs and stores nothing into fields
fieldsAfter(fields) == fields

\* the caller's args after addColumn: the join is bound to the parameter
argsAfter(args) == args

\* insert that stores a missing columns key in _insertDict1
insertDict1Cached(d1, columns) ==
    IF Hashable(columns) THEN [k \in DOMAIN d1 \cup {columns} |-> "isIter"] ELSE d1

\* _insertDict1 after insert: the table is subscripted, never assigned
insertDict1After(d1, columns) == d1

(***************************************************************************)
(* The arguments the calls are drawn from.                                 *)
(***************************************************************************)
SeqsUpTo(S, n) == UNION {[1..k -> S] : k \in 0..n}

DistinctSeqs(S, n) ==
    {q \in SeqsUpTo(S, n) : \A a, b \in 1..Len(q) : a # b => q[a] # q[b]}

sId == <<"i", "d">>
sName == <<"n", "a", "m", "e">>
sDept == <<"d", "e", "p", "t">>
sInt == <<"I", "N", "T">>
sNotNull == <<"N", "O", "T", " ", "N", "U", "L", "L">>

TableNames == {<<"t">>, <<"t", "a", "b">>}

\* the value a row holds in each column
ValueOf(col) ==
    CASE col = sId -> PyInt(23)
      [] col = sName -> PyStr(<<"a">>)
      [] OTHER -> PyInt(100)

\* the mappings with the given columns as keys, in every insertion order
Rows(cols) ==
    {PyDict([n \in 1..Len(ks) |-> [k |-> PyStr(ks[n]), v |-> ValueOf(ks[n])]]) :
        ks \in DistinctSeqs(cols, MaxItems)}

\* literal values: numbers, and strings without quotes, with a single quote,
\* and with both quotes
Scalars ==
    {PyInt(1), PyInt(-7), PyStr(<<>>), PyStr(<<"a">>), PyStr(<<"o", "'", "k">>),
     PyStr(<<"'", "\"">>)}

\* a list and a tuple of each sequence of the elements
Sequences(elems, n) ==
    {PyList(q) : q \in SeqsUpTo(elems, n)} \cup {PyTuple(q) : q \in SeqsUpTo(elems, n)}

\* column descriptors: a string, or a list or tuple of tokens
Descriptors ==
    {PyStr(<<>>), PyStr(sInt), PyStr(sInt \o <<" ">> \o sNotNull)}
    \cup Sequences({PyStr(sInt), PyStr(sNotNull)}, MaxItems)

\* field mappings of createTable
FieldValues ==
    {PyStr(<<>>), PyStr(sInt), PyStr(sInt \o <<" ">> \o sNotNull), PyList(<<>>),
     PyList(<<PyStr(sInt), PyStr(sNotNull)>>), PyTuple(<<PyStr(sInt)>>)}

FieldMaps ==
    UNION {{PyDict([n \in 1..Len(ks) |-> [k |-> PyStr(ks[n]), v |-> vs[n]]]) :
                vs \in [1..Len(ks) -> FieldValues]} :
           ks \in DistinctSeqs({sId, sName, sDept}, MaxItems)}

ColumnLists ==
    {PyList(q) : q \in DistinctSeqs({PyStr(sName), PyStr(sDept)}, MaxItems)}
    \cup {PyTuple(q) : q \in DistinctSeqs({PyStr(sName), PyStr(sDept)}, MaxItems)}

Counts == {PyNone} \cup {PyInt(n) : n \in 0..MaxLimit}

Flags == {PyNone, PyBool(FALSE), PyBool(TRUE)}

\* the arguments of the calls of Spec
Dom ==
    [tables |-> TableNames,
     fields |-> FieldMaps,
     colNames |-> {sId, sName},
     descriptors |-> Descriptors,
     insertValues |-> Sequences(Scalars, MaxItems) \cup Rows({sId, sName, sDept}),
     insertColumns |-> {PyNone} \cup Sequences({PyStr(sId), PyStr(sName)}, MaxItems),
     conditions |-> {PyNone} \cup Rows({sId, sName}),
     columns |-> {PyNone} \cup ColumnLists,
     values |-> Rows({sName, sDept}),
     orderBys |-> {PyNone, PyStr(sId)},
     counts |-> Counts,
     flags |-> Flags]

\* the arguments of the calls of SpecFrame: a few of each shape
FrameDom ==
    [tables |-> {<<"t">>},
     fields |-> {PyDict(<<>>),
                 PyDict(<<[k |-> PyStr(sId), v |-> PyList(<<PyStr(sInt), PyStr(sNotNull)>>)]>>)},
     colNames |-> {sId},
     descriptors |-> {PyStr(<<>>), PyList(<<PyStr(sInt), PyStr(sNotNull)>>)},
     insertValues |-> {PyTuple(<<PyInt(1), PyStr(<<"a">>)>>),
                       PyDict(<<[k |-> PyStr(sId), v |-> PyInt(23)]>>)},
     insertColumns |-> {PyNone, PyTuple(<<>>), PyTuple(<<PyStr(sId)>>), PyList(<<PyStr(sId)>>)},
     conditions |-> {PyNone, PyDict(<<[k |-> PyStr(sId), v |-> PyInt(23)]>>)},
     columns |-> {PyNone, PyList(<<PyStr(sName)>>)},
     values |-> {PyDict(<<[k |-> PyStr(sDept), v |-> PyInt(100)]>>)},
     orderBys |-> {PyNone},
     counts |-> {PyNone, PyInt(1)},
     flags |-> {PyNone, PyBool(TRUE)}]

(***************************************************************************)
(* The state: the module's three values; where the caller is (idle, in a   *)
(* call, or back from it); the call as the caller made it; the caller's    *)
(* argument objects; what the call gave back; and an earlier call a caller *)
(* has kept with its outcome.                                              *)
(***************************************************************************)
NoCall == [op |-> "none", args |-> <<>>]

InitDict1 == [k \in {PyNone} |-> "isIter"]
InitDict2 == [b \in BOOLEAN |-> IF b THEN "bare" ELSE "named"]

NothingKept == [call |-> NoCall, result |-> Return(<<>>), since |-> 0]

\* one more call has returned since the kept one
Counted(sv) ==
    IF sv.call.op = "none" \/ sv.since = MaxSince THEN sv
    ELSE [sv EXCEPT !.since = sv.since + 1]

\* c is a call a caller can make with arguments of D
IsCallOf(c, D) ==
    \/ \E name \in D.tables, fields \in D.fields :
          c = [op |-> "createTable", args |-> <<PyStr(name), fields>>]
    \/ \E tableName \in D.tables, columnName \in D.colNames, args \in D.descriptors :
          c = [op |-> "addColumn", args |-> <<PyStr(tableName), PyStr(columnName), args>>]
    \/ \E name \in D.tables \cup D.colNames :
          c = [op |-> "getColumns", args |-> <<PyStr(name)>>]
    \/ \E tableName \in D.tables, values \in D.insertValues, columns \in D.insertColumns :
          c = [op |-> "insert", args |-> <<PyStr(tableName), values, columns>>]
    \/ \E tableName \in D.tables, conditions \in D.conditions, columns \in D.columns,
          orderBy \in D.orderBys, limit \in D.counts, offset \in D.counts, desc \in D.flags :
          c = [op |-> "select",
               args |-> <<PyStr(tableName), conditions, columns, orderBy, limit, offset, desc>>]
    \/ \E tableName \in D.tables, values \in D.values, conditions \in D.conditions,
          orderBy \in D.orderBys, limit \in D.counts, offset \in D.counts, desc \in D.flags :
          c = [op |-> "update",
               args |-> <<PyStr(tableName), values, conditions, orderBy, limit, offset, desc>>]
    \/ \E tableName \in D.tables, conditions \in D.conditions,
          orderBy \in D.orderBys, limit \in D.counts, offset \in D.counts, desc \in D.flags :
          c = [op |-> "delete",
               args |-> <<PyStr(tableName), conditions, orderBy, limit, offset, desc>>]

Module ==
    /\ getTables = getTablesText
    /\ insertDict1 = InitDict1
    /\ insertDict2 = InitDict2

\* one call of Dom is about to run
Init ==
    /\ Module
    /\ pc = "called"
    /\ IsCallOf(call, Dom)
    /\ objs = call.args
    /\ result = Return(<<>>)
    /\ saved = NothingKept

\* nothing has been called yet
InitFrame ==
    /\ Module
    /\ pc = "idle"
    /\ call = NoCall
    /\ objs = <<>>
    /\ result = Return(<<>>)
    /\ saved = NothingKept

\* a caller makes a call with arguments of FrameDom
Issue ==
    /\ pc # "called"
    /\ IsCallOf(call', FrameDom)
    /\ objs' = call'.args
    /\ result' = Return(<<>>)
    /\ pc' = "called"
    /\ UNCHANGED <<getTables, insertDict1, insertDict2, saved>>

createTableRuns ==
    /\ pc = "called" /\ call.op = "createTable"
    /\ result' = createTable(str(objs[1]), objs[2])
    /\ objs' = <<objs[1], fieldsAfter(objs[2])>>
    /\ pc' = "returned"
    /\ saved' = Counted(saved)
    /\ UNCHANGED <<getTables, insertDict1, insertDict2, call>>

addColumnRuns ==
    /\ pc = "called" /\ call.op = "addColumn"
    /\ result' = addColumn(str(objs[1]), str(objs[2]), objs[3])
    /\ objs' = <<objs[1], objs[2], argsAfter(objs[3])>>
    /\ pc' = "returned"
    /\ saved' = Counted(saved)
    /\ UNCHANGED <<getTables, insertDict1, insertDict2, call>>

getColumnsRuns ==
    /\ pc = "called" /\ call.op = "getColumns"
    /\ result' = getColumns(str(objs[1]))
    /\ pc' = "returned"
    /\ saved' = Counted(saved)
    /\ UNCHANGED <<getTables, insertDict1, insertDict2, call, objs>>

insertRuns ==
    /\ pc = "called" /\ call.op = "insert"
    /\ result' = insert(str(objs[1]), objs[2], objs[3], insertDict1, insertDict2)
    /\ insertDict1' = insertDict1After(insertDict1, objs[3])
    /\ pc' = "returned"
    /\ saved' = Counted(saved)
    /\ UNCHANGED <<getTables, insertDict2, call, objs>>

selectRuns ==
    /\ pc = "called" /\ call.op = "select"
    /\ result' = select(str(objs[1]), objs[2], objs[3], objs[4], objs[5], objs[6], objs[7])
    /\ pc' = "returned"
    /\ saved' = Counted(saved)
    /\ UNCHANGED <<getTables, insertDict1, insertDict2, call, objs>>

updateRuns ==
    /\ pc = "called" /\ call.op = "update"
    /\ result' = update(str(objs[1]), objs[2], objs[3], objs[4], objs[5], objs[6], objs[7])
    /\ pc' = "returned"
    /\ saved' = Counted(saved)
    /\ UNCHANGED <<getTables, insertDict1, insertDict2, call, objs>>

deleteRuns ==
    /\ pc = "called" /\ call.op = "delete"
    /\ result' = delete(str(objs[1]), objs[2], objs[3], objs[4], objs[5], objs[6])
    /\ pc' = "returned"
    /\ saved' = Counted(saved)
    /\ UNCHANGED <<getTables, insertDict1, insertDict2, call, objs>>

\* a caller keeps the call that has just returned, with its outcome, to
\* compare a later call against
Keep ==
    /\ pc = "returned"
    /\ saved' = [call |-> call, result |-> result, since |-> 0]
    /\ UNCHANGED <<getTables, insertDict1, insertDict2, pc, call, objs, result>>

Next ==
    \/ createTableRuns
    \/ addColumnRuns
    \/ getColumnsRuns
    \/ insertRuns
    \/ selectRuns
    \/ updateRuns
    \/ deleteRuns

Spec == Init /\ [][Next]_vars

NextFrame == Issue \/ Keep \/ Next

SpecFrame == InitFrame /\ [][NextFrame]_vars

(***************************************************************************)
(* The properties checked.                                                 *)
(***************************************************************************)
\* the call named op has returned a statement or raised
Done(op) == pc = "returned" /\ call.op = op

Returned == pc = "returned" /\ result.exc = ""

\* the literal renderings of elems, comma-space separated, in parentheses
Listed(elems) ==
    <<"(">> \o join(<<",", " ">>, [n \in 1..Len(elems) |-> repr(elems[n])]) \o <<")">>

\* cs without the whitespace at its end: its longest prefix that does not
\* end in whitespace
TrimEnd(cs) ==
    LET keep == {n \in 0..Len(cs) : n = 0 \/ cs[n] \notin Whitespace}
        last == CHOOSE n \in keep : \A m \in keep : m <= n
    IN SubSeq(cs, 1, last)

\* sub occurs in cs
Occurs(sub, cs) ==
    \E n \in 1..(Len(cs) - Len(sub) + 1) : SubSeq(cs, n, n + Len(sub) - 1) = sub

StartsWith(cs, prefix) ==
    Len(cs) >= Len(prefix) /\ SubSeq(cs, 1, Len(prefix)) = prefix

EndsWith(cs, suffix) ==
    Len(cs) >= Len(suffix) /\ SubSeq(cs, Len(cs) - Len(suffix) + 1, Len(cs)) = suffix

\* C1: every statement returned by createTable (with at least one field),
\* addColumn, getColumns, insert, select, update and delete ends with exactly
\* one semicolon, and the character before that semicolon is neither
\* whitespace nor another semicolon.
C1_OneSemicolonNoSpaceBefore ==
    (Returned /\ ~(call.op = "createTable" /\ call.args[2].items = <<>>)) =>
        LET q == result.ret
        IN /\ Len(q) >= 2
           /\ q[Len(q)] = ";"
           /\ q[Len(q) - 1] \notin Whitespace \cup {";"}

\* C2: insert with a mapping and no columns returns
\* INSERT INTO <tableName> (<k1>, ...) VALUES(<v1>, ...); with the column
\* names emitted as given, without quotes, and the values as literals.
C2_ColumnNamesAsGiven ==
    (Done("insert") /\ call.args[3] = PyNone /\ call.args[2].t = "dict") =>
        LET values == call.args[2]
            names == [n \in 1..Len(values.items) |-> str(values.items[n].k)]
        IN result = Return(txtInsertInto \o str(call.args[1]) \o <<" ", "(">>
                           \o join(<<",", " ">>, names) \o <<")", " ">> \o txtValues
                           \o Listed(DictValues(values)) \o <<";">>)

\* C2 as amended: insert with a mapping and no columns returns
\* INSERT INTO <tableName> (<k1>, ...) VALUES(<v1>, ...); where the keys and
\* the values are both rendered as literals, in mapping order, so that a
\* column name given as a string is emitted in quotes.
C2_ColumnNamesAsLiterals ==
    (Done("insert") /\ call.args[3] = PyNone /\ call.args[2].t = "dict") =>
        LET values == call.args[2]
        IN /\ result = Return(txtInsertInto \o str(call.args[1]) \o <<" ">>
                              \o Listed(DictKeys(values)) \o <<" ">> \o txtValues
                              \o Listed(DictValues(values)) \o <<";">>)
           /\ \A n \in 1..Len(values.items) :
                 Occurs(<<"'">> \o str(values.items[n].k) \o <<"'">>, result.ret)

\* a mapping of two columns was inserted without a columns argument
C2_Witness ==
    /\ Done("insert") /\ call.args[3] = PyNone
    /\ call.args[2].t = "dict" /\ Len(call.args[2].items) = 2
    /\ result.exc = ""

\* C3: insert with a non-empty columns argument returns
\* INSERT INTO <tableName> VALUES(<c1>, ...); built from the elements of
\* columns alone, with no column-name list and nothing from values.
C3_BareValuesFromColumns ==
    (Done("insert") /\ Truthy(call.args[3])) =>
        result = Return(txtInsertInto \o str(call.args[1]) \o <<" ">> \o txtValues
                        \o Listed(call.args[3].items) \o <<";">>)

\* C3 as amended: insert with a non-empty tuple as columns returns
\* INSERT INTO <tableName> (<c1>, ...) VALUES(<v1>, ...); where the first list
\* holds the literal renderings of the elements of columns and the VALUES
\* tuple those of the elements of values (of its keys, when values is a
\* mapping); with a non-empty list as columns the call raises TypeError.
C3_ColumnListThenValues ==
    (Done("insert") /\ Truthy(call.args[3])) =>
        IF call.args[3].t = "tuple"
        THEN result = Return(txtInsertInto \o str(call.args[1]) \o <<" ">>
                             \o Listed(call.args[3].items) \o <<" ">> \o txtValues
                             \o Listed(Iter(call.args[2])) \o <<";">>)
        ELSE result = Raise("TypeError")

\* a sequence of values was inserted with a tuple of two columns
C3_Witness ==
    /\ Done("insert") /\ call.args[3].t = "tuple" /\ Len(call.args[3].items) = 2
    /\ call.args[2].t = "tuple" /\ Len(call.args[2].items) = 2
    /\ result.exc = ""

\* a string is rendered between two quotes of one kind, a number without any
LiteralOf(x) ==
    LET r == repr(x)
    IN IF x.t = "str"
       THEN Len(r) >= 2 /\ r[1] \in {"'", "\""} /\ r[Len(r)] = r[1]
       ELSE ~Contains(r, "'") /\ ~Contains(r, "\"")

\* C4: insert with a list or tuple and no columns returns
\* INSERT INTO <tableName> VALUES(<v1>, ...); with one literal per element in
\* order, comma-space separated, strings quoted and numbers not; the
\* statement depends on the elements alone, not on list or tuple, and has no
\* column-name list.
C4_SequenceInsert ==
    (Done("insert") /\ call.args[3] = PyNone /\ call.args[2].t \in {"list", "tuple"}) =>
        LET elems == call.args[2].items
        IN /\ result = Return(txtInsertInto \o str(call.args[1]) \o <<" ">> \o txtValues
                              \o Listed(elems) \o <<";">>)
           /\ \A n \in 1..Len(elems) : LiteralOf(elems[n])
           /\ ~Occurs(<<")", " ">> \o txtValues, result.ret)

\* a tuple of a number and a string was inserted without a columns argument
C4_Witness ==
    /\ Done("insert") /\ call.args[3] = PyNone
    /\ call.args[2] = PyTuple(<<PyInt(1), PyStr(<<"a">>)>>)
    /\ result.exc = ""

\* the parts of a sequence that are present, in order
RECURSIVE Present(_)
Present(parts) ==
    IF parts = <<>> THEN <<>>
    ELSE IF Head(parts).on THEN <<Head(parts).text>> \o Present(Tail(parts))
    ELSE Present(Tail(parts))

\* col=val for each entry of a mapping, the value by plain string conversion
Equalities(d) ==
    [n \in 1..Len(d.items) |-> d.items[n].k.s \o <<"=">> \o str(d.items[n].v)]

\* the statement select, update or delete is to return: the mode, the
\* attribute list, FROM, the table name and the clauses that are present, in
\* this order with one space between them, trimmed, then the semicolon
Reference(mode, tableName, conditions, orderBy, limit, offset, desc, columns, values) ==
    LET given == columns.t # "None" /\ columns.items # <<>>
        attributes ==
            IF given
            THEN join(<<",">>, [n \in 1..Len(columns.items) |->
                        tableName \o <<".", "'">> \o columns.items[n].s \o <<"'">>])
            ELSE <<"*">>
        parts ==
            << [on |-> TRUE, text |-> mode],
               [on |-> given \/ mode = SELECT, text |-> attributes],
               [on |-> mode \in {SELECT, DELETE}, text |-> <<"F", "R", "O", "M">>],
               [on |-> TRUE, text |-> tableName],
               [on |-> mode = UPDATE,
                text |-> <<"S", "E", "T", " ">> \o join(<<",">>, Equalities(values))],
               [on |-> conditions.t = "dict" /\ conditions.items # <<>>,
                text |-> <<"W", "H", "E", "R", "E", " ">>
                         \o join(<<" ", "A", "N", "D", " ">>, Equalities(conditions))],
               [on |-> orderBy.t = "str" /\ orderBy.s # <<>>,
                text |-> <<"O", "R", "D", "E", "R", " ", "B", "Y", " ">> \o orderBy.s],
               [on |-> desc = PyBool(TRUE), text |-> <<"D", "E", "S", "C">>],
               [on |-> limit.t = "int" /\ limit.i # 0,
                text |-> <<"L", "I", "M", "I", "T", " ">> \o IntStr(limit.i)],
               [on |-> offset.t = "int" /\ offset.i # 0,
                text |-> <<"O", "F", "F", "S", "E", "T", " ">> \o IntStr(offset.i)] >>
    IN TrimEnd(join(<<" ">>, Present(parts))) \o <<";">>

\* C5: select, update and delete return the reference assembly for every
\* combination of conditions, columns (select), values (update), orderBy,
\* limit, offset and desc; DESC is there whenever desc is true, with or
\* without orderBy.
C5_ReferenceAssembly ==
    /\ Done("select") =>
          result = Return(Reference(SELECT, str(call.args[1]), call.args[2], call.args[4],
                                    call.args[5], call.args[6], call.args[7],
                                    call.args[3], PyNone))
    /\ Done("update") =>
          result = Return(Reference(UPDATE, str(call.args[1]), call.args[3], call.args[4],
                                    call.args[5], call.args[6], call.args[7],
                                    PyNone, call.args[2]))
    /\ Done("delete") =>
          result = Return(Reference(DELETE, str(call.args[1]), call.args[2], call.args[3],
                                    call.args[4], call.args[5], call.args[6],
                                    PyNone, PyNone))

\* delete("t", {"id": 23}, limit=1, desc=True) has returned
\* DELETE FROM t WHERE id=23 DESC LIMIT 1;
C5_Witness ==
    /\ Done("delete")
    /\ call.args = <<PyStr(<<"t">>), PyDict(<<[k |-> PyStr(sId), v |-> PyInt(23)]>>),
                     PyNone, PyInt(1), PyNone, PyBool(TRUE)>>
    /\ result = Return(<<"D", "E", "L", "E", "T", "E", " ", "F", "R", "O", "M", " ", "t", " ",
                         "W", "H", "E", "R", "E", " ", "i", "d", "=", "2", "3", " ",
                         "D", "E", "S", "C", " ", "L", "I", "M", "I", "T", " ", "1", ";">>)

\* the text of a column descriptor: its tokens with one space between them,
\* or the string itself
DescriptorText(spec) ==
    IF spec.t = "str" THEN spec.s
    ELSE join(<<" ">>, [n \in 1..Len(spec.items) |-> spec.items[n].s])

\* the field mapping with every descriptor written as a single string
AsStrings(fields) ==
    PyDict([n \in 1..Len(fields.items) |->
               [k |-> fields.items[n].k, v |-> PyStr(DescriptorText(fields.items[n].v))]])

\* C6: createTable with at least one field returns CREATE TABLE <name>(
\* then one "<col> <spec>" per entry in mapping order, separated by a comma
\* and a space with no comma after the last, then ); and a descriptor given
\* as a list or tuple of tokens reads the same as the single string of its
\* tokens with one space between them.
C6_CreateTableEntries ==
    (Done("createTable") /\ call.args[2].items # <<>>) =>
        LET name == str(call.args[1])
            fields == call.args[2]
            entries == [n \in 1..Len(fields.items) |->
                           fields.items[n].k.s \o <<" ">> \o DescriptorText(fields.items[n].v)]
        IN /\ result = Return(txtCreateTable \o name \o <<"(">>
                              \o join(<<",", " ">>, entries) \o <<")", ";">>)
           /\ StartsWith(result.ret, txtCreateTable \o name \o <<"(">>)
           /\ EndsWith(result.ret, <<")", ";">>)
           /\ ~EndsWith(result.ret, <<",", ")", ";">>)
           /\ ~EndsWith(result.ret, <<",", " ", ")", ";">>)
           /\ result = createTable(name, AsStrings(fields))

\* a table of two fields was created, one descriptor a list of two tokens
C6_Witness ==
    /\ Done("createTable") /\ Len(call.args[2].items) = 2
    /\ call.args[2].items[1].v = PyList(<<PyStr(sInt), PyStr(sNotNull)>>)
    /\ result.exc = ""

\* the statement has the clause "<keyword> <n>" as words of its own
HasClause(q, keyword, n) ==
    \/ Occurs(<<" ">> \o keyword \o <<" ">> \o IntStr(n) \o <<" ">>, q)
    \/ EndsWith(q, <<" ">> \o keyword \o <<" ">> \o IntStr(n) \o <<";">>)

\* limit and offset of the call made, whichever of the three it is
LimitArg == IF call.op = "delete" THEN call.args[4] ELSE call.args[5]
OffsetArg == IF call.op = "delete" THEN call.args[5] ELSE call.args[6]

\* C7: select, update and delete leave LIMIT out when limit is None or 0 and
\* OFFSET out when offset is None or 0; they emit LIMIT <n> when limit is a
\* positive integer and OFFSET <n> when offset is one, each whatever the
\* other is.
C7_ZeroIsAbsent ==
    (pc = "returned" /\ call.op \in {"select", "update", "delete"}) =>
        /\ result.exc = ""
        /\ IF LimitArg.t = "int" /\ LimitArg.i > 0
           THEN HasClause(result.ret, <<"L", "I", "M", "I", "T">>, LimitArg.i)
           ELSE ~Occurs(<<"L", "I", "M", "I", "T">>, result.ret)
        /\ IF OffsetArg.t = "int" /\ OffsetArg.i > 0
           THEN HasClause(result.ret, <<"O", "F", "F", "S", "E", "T">>, OffsetArg.i)
           ELSE ~Occurs(<<"O", "F", "F", "S", "E", "T">>, result.ret)

\* a select with limit=0 and a positive offset has returned: OFFSET without
\* LIMIT
C7_Witness ==
    /\ Done("select") /\ LimitArg = PyInt(0) /\ OffsetArg = PyInt(2)
    /\ result.exc = ""
    /\ Occurs(<<"O", "F", "F", "S", "E", "T", " ", "2">>, result.ret)

C9_EmptyFieldsFail ==
    (Done("createTable") /\ call.args[2].items = <<>>) => result.exc # ""

\* C10: insert with a list as columns raises TypeError and returns nothing,
\* whatever values is; with a tuple as columns, the empty one too, it returns
\* the statement of the KeyError handler, built from columns and the
\* elements of values; with columns None alone the statement is chosen by
\* the shape of values.
C10_ColumnsDispatch ==
    Done("insert") =>
        LET head == txtInsertInto \o str(call.args[1]) \o <<" ">>
            values == call.args[2]
            columns == call.args[3]
        IN /\ columns.t = "list" => result = Raise("TypeError")
           /\ columns.t = "tuple" =>
                 result = Return(head \o Listed(columns.items) \o <<" ">> \o txtValues
                                 \o Listed(Iter(values)) \o <<";">>)
           /\ (columns = PyNone /\ values.t = "dict") =>
                 /\ result.exc = ""
                 /\ StartsWith(result.ret, head \o Listed(DictKeys(values)))
           /\ (columns = PyNone /\ values.t # "dict") =>
                 /\ result.exc = ""
                 /\ StartsWith(result.ret, head \o txtValues)

\* an insert with a list as columns has raised TypeError
C10_Witness ==
    /\ Done("insert") /\ call.args[3].t = "list"
    /\ result = Raise("TypeError")
====
